---- MODULE Spec2Model ----
(***************************************************************************)
(* Model of the rooster password vault (projects/rooster/src/password/     *)
(* v2.rs): the PasswordStore object, its entry operations, the container   *)
(* written by sync and read by from_input.                                 *)
(*                                                                         *)
(* Strings are sequences of Unicode code points.  Salts, IVs, keys,        *)
(* ciphertexts and MACs are symbolic terms: the KDF and the MAC are        *)
(* injective in their inputs, and a ciphertext decrypts to its plaintext   *)
(* only under the key and IV it was made with.                             *)
(***************************************************************************)
EXTENDS Integers, Sequences, FiniteSets, TLC

\* store:  the PasswordStore object the caller holds
\* file:   the bytes of the password file (<<>> before the first sync)
\* last:   the last operation, its inputs and its result
\* hist:   what has been done to this store object: the master password most
\*         recently set (cur), the one in force before the latest
\*         change_master_password (prev), the one in force when the file was
\*         last written or read by this object (base), whether the key was
\*         last set by new/from_input ("plain"), by change_master_password
\*         ("cmp") or by a change_scrypt_params after one ("cmp_kdf"),
\*         whether the master password changed since the last sync (pending),
\*         and whether the file holds this object's data (attached)
\* synced: the entries, salt, parameters, key and hist (all but attached)
\*         as they were at the last sync that succeeded
\* tamper: 0, or the position of the file changed since it was written
VARIABLES store, file, last, hist, synced, tamper

vars == <<store, file, last, hist, synced, tamper>>

\* ------------------------------------------------------------------ bounds

\* Longest entry list the entry operations build.
MaxEntries == 2

\* Longest entry list of the vault (file) specification.
MaxVaultEntries == 1

\* ------------------------------------------------------- program constants

VERSION == 2

SCRYPT_PARAM_LOG2_N == 12

SCRYPT_PARAM_R == 8

SCRYPT_PARAM_P == 1

\* ----------------------------------------------------------------- strings

\* Code points used in names: 'A' 'a' 'k' and U+212A KELVIN SIGN, whose
\* lowercase mapping is 'k'.
Chars == {65, 97, 107, 8490}

\* Number of bytes of the UTF-8 encoding of one code point (char::len_utf8).
len_utf8(c) ==
    IF c < 128 THEN 1 ELSE IF c < 2048 THEN 2 ELSE IF c < 65536 THEN 3 ELSE 4

\* char::to_lowercase: the lowercase mapping of one code point, a sequence
\* (U+0130 maps to two code points).
char_to_lowercase(c) ==
    IF c >= 65 /\ c <= 90 THEN <<c + 32>>
    ELSE IF c = 8490 THEN <<107>>
    ELSE IF c = 304 THEN <<105, 775>>
    ELSE <<c>>

RECURSIVE to_lowercase(_)
\* str::to_lowercase: the concatenation of the characters' mappings.
to_lowercase(s) ==
    IF s = <<>> THEN <<>> ELSE char_to_lowercase(Head(s)) \o to_lowercase(Tail(s))

RECURSIVE str_len(_)
\* str::len: the length in bytes of the UTF-8 encoding.
str_len(s) ==
    IF s = <<>> THEN 0 ELSE len_utf8(Head(s)) + str_len(Tail(s))

\* s.chars().nth(i).map(|c| c.to_lowercase().nth(0)), i counted from 0:
\* <<>> is None, <<x>> is Some(Some(x)).
nth_lower(s, i) ==
    IF i < Len(s) THEN <<Head(char_to_lowercase(s[i + 1]))>> ELSE <<>>

\* The comparison of get_password's loop body: same byte length, and at every
\* index below the byte length the first lowercase code points agree.
name_matches(stored, name) ==
    /\ str_len(stored) = str_len(name)
    /\ \A i \in 0 .. (str_len(stored) - 1) : nth_lower(stored, i) = nth_lower(name, i)

\* ---------------------------------------------------------- entry operations

\* Index of the first entry get_password returns for name, 0 when none.
get_index(passwords, name) ==
    IF \E i \in 1 .. Len(passwords) : name_matches(passwords[i].name, name)
    THEN CHOOSE i \in 1 .. Len(passwords) :
            /\ name_matches(passwords[i].name, name)
            /\ \A j \in 1 .. (i - 1) : ~name_matches(passwords[j].name, name)
    ELSE 0

\* get_password: <<>> is None, <<p>> is Some(p.clone()).
get_password(passwords, name) ==
    IF get_index(passwords, name) = 0 THEN <<>>
    ELSE <<passwords[get_index(passwords, name)]>>

has_password(passwords, name) == get_password(passwords, name) # <<>>

\* add_password with its two checks in the other order.
add_password_duplicate_first(passwords, password) ==
    IF has_password(passwords, password.name)
    THEN [err |-> "AppExistsError", passwords |-> passwords]
    ELSE IF Len(password.password) = 0
    THEN [err |-> "EmptyPasswordError", passwords |-> passwords]
    ELSE [err |-> "ok", passwords |-> Append(passwords, password)]

\* add_password: the error kind and the entry list afterwards.
add_password(passwords, password) ==
    IF Len(password.password) = 0
    THEN [err |-> "EmptyPasswordError", passwords |-> passwords]
    ELSE IF has_password(passwords, password.name)
    THEN [err |-> "AppExistsError", passwords |-> passwords]
    ELSE [err |-> "ok", passwords |-> Append(passwords, password)]

\* Vec::remove(i), i counted from 1.
remove_at(passwords, i) ==
    SubSeq(passwords, 1, i - 1) \o SubSeq(passwords, i + 1, Len(passwords))

\* delete_password removing the entry at the head of the list instead of
\* the one found.
delete_password_head(passwords, name) ==
    IF get_password(passwords, name) = <<>>
    THEN [err |-> "NoSuchAppError", passwords |-> passwords, removed |-> <<>>]
    ELSE [err |-> "ok", passwords |-> Tail(passwords), removed |-> <<Head(passwords)>>]

\* delete_password: looks the entry up with get_password, then removes the
\* first entry whose name is byte-equal to the found entry's name.
delete_password(passwords, name) ==
    IF get_password(passwords, name) = <<>>
    THEN [err |-> "NoSuchAppError", passwords |-> passwords, removed |-> <<>>]
    ELSE LET p == get_password(passwords, name)[1]
             i == CHOOSE k \in 1 .. Len(passwords) :
                    /\ passwords[k].name = p.name
                    /\ \A j \in 1 .. (k - 1) : passwords[j].name # p.name
         IN [err |-> "ok", passwords |-> remove_at(passwords, i),
             removed |-> <<passwords[i]>>]

\* A closure handed to change_password, as the fields it replaces: a field
\* of <<>> keeps the old value, <<v>> sets it to v.
apply_closure(t, old) ==
    [name |-> IF t.name = <<>> THEN old.name ELSE t.name[1],
     username |-> IF t.username = <<>> THEN old.username ELSE t.username[1],
     password |-> IF t.password = <<>> THEN old.password ELSE t.password[1],
     created_at |-> old.created_at,
     updated_at |-> IF t.updated_at = <<>> THEN old.updated_at ELSE t.updated_at[1]]

\* change_password: delete, apply the closure, add; when the add fails the
\* old entry is added back (at the end of the list) and the error returned.
\* ret is the entry returned on success.
change_password(passwords, app_name, t) ==
    LET d == delete_password(passwords, app_name) IN
    IF d.err # "ok" THEN [err |-> d.err, passwords |-> passwords, ret |-> <<>>]
    ELSE LET old == d.removed[1]
             new == apply_closure(t, old)
             a == add_password(d.passwords, new)
         IN IF a.err = "ok"
            THEN [err |-> "ok", passwords |-> a.passwords, ret |-> <<new>>]
            ELSE LET back == add_password(d.passwords, old)
                 IN [err |-> IF back.err = "ok" THEN a.err ELSE back.err,
                     passwords |-> back.passwords, ret |-> <<>>]

\* get_all_passwords / the sort key of list and search.
lower_names(passwords) == [i \in 1 .. Len(passwords) |-> to_lowercase(passwords[i].name)]

\* The UTF-8 encoding of one code point.
utf8(c) ==
    IF c < 128 THEN <<c>>
    ELSE IF c < 2048 THEN <<192 + (c \div 64), 128 + (c % 64)>>
    ELSE IF c < 65536
    THEN <<224 + (c \div 4096), 128 + ((c \div 64) % 64), 128 + (c % 64)>>
    ELSE <<240 + (c \div 262144), 128 + ((c \div 4096) % 64),
           128 + ((c \div 64) % 64), 128 + (c % 64)>>

RECURSIVE as_bytes(_)
\* str::as_bytes: the bytes of a string.
as_bytes(s) ==
    IF s = <<>> THEN <<>> ELSE utf8(Head(s)) \o as_bytes(Tail(s))

RECURSIVE string_le(_, _)
\* Ord for String: a <= b, comparing the bytes lexicographically.
string_le(a, b) ==
    IF a = <<>> THEN TRUE
    ELSE IF b = <<>> THEN FALSE
    ELSE IF Head(a) < Head(b) THEN TRUE
    ELSE IF Head(a) > Head(b) THEN FALSE
    ELSE string_le(Tail(a), Tail(b))

\* The key of sort_by_key in get_all_passwords and search_passwords.
sort_key(p) == as_bytes(to_lowercase(p.name))

RECURSIVE insert_by_key(_, _)
\* p put after every element whose key is not greater than its own.
insert_by_key(sorted, p) ==
    IF sorted = <<>> THEN <<p>>
    ELSE IF string_le(sort_key(Head(sorted)), sort_key(p))
    THEN <<Head(sorted)>> \o insert_by_key(Tail(sorted), p)
    ELSE <<p>> \o sorted

RECURSIVE sort_by_key(_)
\* Vec::sort_by_key: a stable sort by sort_key.
sort_by_key(passwords) ==
    IF passwords = <<>> THEN <<>>
    ELSE insert_by_key(sort_by_key(SubSeq(passwords, 1, Len(passwords) - 1)),
                       passwords[Len(passwords)])

\* get_all_passwords without the sort: the entries in stored order.
get_all_passwords_unsorted(passwords) == passwords

\* get_all_passwords: the entries sorted by lowercased name.
get_all_passwords(passwords) == sort_by_key(passwords)

\* str::is_char_boundary: index i (counted from 0) of the bytes b is the
\* start of a character or the end of the string.
is_char_boundary(b, i) ==
    \/ i = 0
    \/ i = Len(b)
    \/ i < Len(b) /\ ~(b[i + 1] >= 128 /\ b[i + 1] < 192)

\* str::find: <<i>> for the first byte index (from 0) at which needle
\* occurs in hay, <<>> when it does not occur.
find(hay, needle) ==
    LET hits == {i \in 0 .. (Len(hay) - Len(needle)) :
                    SubSeq(hay, i + 1, i + Len(needle)) = needle}
    IN IF hits = {} THEN <<>>
       ELSE <<CHOOSE i \in hits : \A j \in hits : i <= j>>

RECURSIVE scan_name(_, _, _)
\* The inner loop of search_passwords over the characters of the query
\* still to match, resuming at byte last_i of the lowercased name: slicing
\* app_name[last_i..] aborts when last_i is not a character boundary.
scan_name(app_name, chars, last_i) ==
    IF chars = <<>> THEN "match"
    ELSE IF ~is_char_boundary(app_name, last_i) THEN "panic"
    ELSE LET ic == find(SubSeq(app_name, last_i + 1, Len(app_name)),
                        as_bytes(char_to_lowercase(Head(chars))))
         IN IF ic = <<>> THEN "no_match"
            ELSE scan_name(app_name, Tail(chars), last_i + ic[1] + 1)

\* search_passwords: the lowercased names that match are collected, the
\* entries whose lowercased name is among them are returned sorted.
search_passwords(passwords, name) ==
    LET keys == [i \in 1 .. Len(passwords) |-> sort_key(passwords[i])]
        search_results == {keys[i] : i \in {j \in 1 .. Len(passwords) :
                                scan_name(keys[j], name, 0) = "match"}}
        in_results(p) == sort_key(p) \in search_results
    IN IF \E i \in 1 .. Len(passwords) : scan_name(keys[i], name, 0) = "panic"
       THEN [err |-> "panic", ret |-> <<>>]
       ELSE [err |-> "ok", ret |-> sort_by_key(SelectSeq(passwords, in_results))]

\* ---------------------------------------------------------------- rendering

\* Texts are sequences of code points.  The literal pieces the derived Debug
\* implementations write: "SafeString { inner: ", " }", "Password { name: ",
\* ", username: ", ", password: ", ", created_at: ", ", updated_at: ".
SafeStringOpen ==
    <<83, 97, 102, 101, 83, 116, 114, 105, 110, 103, 32, 123, 32, 105, 110,
    110, 101, 114, 58, 32>>

StructClose == <<32, 125>>

PasswordOpen ==
    <<80, 97, 115, 115, 119, 111, 114, 100, 32, 123, 32, 110, 97, 109, 101,
    58, 32>>

UsernameLabel == <<44, 32, 117, 115, 101, 114, 110, 97, 109, 101, 58, 32>>

PasswordLabel == <<44, 32, 112, 97, 115, 115, 119, 111, 114, 100, 58, 32>>

CreatedAtLabel ==
    <<44, 32, 99, 114, 101, 97, 116, 101, 100, 95, 97, 116, 58, 32>>

UpdatedAtLabel ==
    <<44, 32, 117, 112, 100, 97, 116, 101, 100, 95, 97, 116, 58, 32>>

\* char::escape_debug on the characters of the model: a double quote and a
\* backslash get a backslash before them, a letter is written as it is.
escape_debug(c) ==
    IF c = 34 \/ c = 92 THEN <<92, c>> ELSE <<c>>

RECURSIVE escape_all(_)
escape_all(str) ==
    IF str = <<>> THEN <<>> ELSE escape_debug(Head(str)) \o escape_all(Tail(str))

\* <str as Debug>::fmt: the escaped text between double quotes.
str_debug(str) == <<34>> \o escape_all(str) \o <<34>>

\* <i64 as Debug>::fmt of a time that is not negative: its decimal digits.
RECURSIVE time_debug(_)
time_debug(n) ==
    IF n < 10 THEN <<48 + n>> ELSE time_debug(n \div 10) \o <<48 + (n % 10)>>

\* The Debug that SafeString derives: the struct name and its one field.
safe_string_debug(inner) == SafeStringOpen \o str_debug(inner) \o StructClose

\* The Debug that Password derives: the struct name and its five fields,
\* each rendered by its own Debug.
password_debug(e) ==
    PasswordOpen \o str_debug(e.name)
        \o UsernameLabel \o str_debug(e.username)
        \o PasswordLabel \o safe_string_debug(e.password)
        \o CreatedAtLabel \o time_debug(e.created_at)
        \o UpdatedAtLabel \o time_debug(e.updated_at)
        \o StructClose

\* ------------------------------------------------------------ record model

\* serde_json::to_string(&Schema): one object per entry, its fields written
\* under their keys in declaration order.
to_string(passwords) ==
    [i \in 1 .. Len(passwords) |->
        << <<"name", passwords[i].name>>,
           <<"username", passwords[i].username>>,
           <<"password", passwords[i].password>>,
           <<"created_at", passwords[i].created_at>>,
           <<"updated_at", passwords[i].updated_at>> >>]

\* The position of key k in one serialized object.
json_field(obj, k) == (CHOOSE j \in 1 .. Len(obj) : obj[j][1] = k)

\* serde_json::from_str::<Schema>: reads each entry's fields by key.  No
\* field is validated (an empty "password" is read as it is).
from_str(json) ==
    [i \in 1 .. Len(json) |->
        [name |-> json[i][json_field(json[i], "name")][2],
         username |-> json[i][json_field(json[i], "username")][2],
         password |-> json[i][json_field(json[i], "password")][2],
         created_at |-> json[i][json_field(json[i], "created_at")][2],
         updated_at |-> json[i][json_field(json[i], "updated_at")][2]]]

\* ------------------------------------------------------------------ crypto

\* write_u32::<BigEndian>
write_u32_be(x) ==
    << (x \div 16777216) % 256, (x \div 65536) % 256, (x \div 256) % 256, x % 256 >>

\* read_u32::<BigEndian>
read_u32_be(b) == b[1] * 16777216 + b[2] * 65536 + b[3] * 256 + b[4]

\* 1 << scrypt_log2_n as u64 shifts a 64-bit 1: a shift by 64 or more
\* overflows.  A build with overflow checks panics there.
shl_overflows(scrypt_log2_n) == scrypt_log2_n >= 64

\* The exponent of N = 1 << scrypt_log2_n in a build without overflow
\* checks: the shift amount is taken modulo 64.
wrapping_shl(scrypt_log2_n) == scrypt_log2_n % 64

\* The parameter checks of the scrypt primitive: a nonzero return, on which
\* generate_encryption_key panics.  N = 1 << log2_n must be at least 2 and
\* fit 32 bits, r and p nonzero, r * p below 2^30.
kdf_fails(scrypt_log2_n, scrypt_r, scrypt_p) ==
    \/ wrapping_shl(scrypt_log2_n) < 1
    \/ wrapping_shl(scrypt_log2_n) > 31
    \/ scrypt_r = 0
    \/ scrypt_p = 0
    \/ scrypt_r * scrypt_p >= 1073741824

\* generate_encryption_key: the derived key as a term over its inputs.
generate_encryption_key(master_password, salt, scrypt_log2_n, scrypt_r, scrypt_p) ==
    [pw |-> master_password, salt |-> salt, n |-> 2 ^ wrapping_shl(scrypt_log2_n),
     r |-> scrypt_r, p |-> scrypt_p]

\* digest_blob_with_metadata as it would be if it left the salt out.
digest_blob_without_salt(version, scrypt_log2_n, scrypt_r, scrypt_p, iv, salt, blob) ==
    write_u32_be(version) \o <<scrypt_log2_n>> \o write_u32_be(scrypt_r)
        \o write_u32_be(scrypt_p) \o <<iv>> \o <<blob>>

\* digest_blob_with_metadata as it would be if it wrote the salt before the
\* IV, as the file has them.
digest_blob_salt_first(version, scrypt_log2_n, scrypt_r, scrypt_p, iv, salt, blob) ==
    write_u32_be(version) \o <<scrypt_log2_n>> \o write_u32_be(scrypt_r)
        \o write_u32_be(scrypt_p) \o <<salt>> \o <<iv>> \o <<blob>>

\* digest_blob_with_metadata: version, log2_n, r, p, iv, salt, blob.
digest_blob_with_metadata(version, scrypt_log2_n, scrypt_r, scrypt_p, iv, salt, blob) ==
    write_u32_be(version) \o <<scrypt_log2_n>> \o write_u32_be(scrypt_r)
        \o write_u32_be(scrypt_p) \o <<iv>> \o <<salt>> \o <<blob>>

\* digest: HMAC-SHA512 of the metadata and blob under key, as a term.
digest(key, version, scrypt_log2_n, scrypt_r, scrypt_p, iv, salt, blob) ==
    [key |-> key,
     msg |-> digest_blob_with_metadata(version, scrypt_log2_n, scrypt_r, scrypt_p,
                                       iv, salt, blob),
     flipped |-> FALSE]

\* crypto_auth_hmacsha512_verify: 0 (TRUE here) when h is the MAC of msg
\* under key.
hmac_verify(h, msg, key) == ~h.flipped /\ h.key = key /\ h.msg = msg

\* aes::encrypt (AES-256-CBC, PKCS padding): the ciphertext as a term.
aes_encrypt(plaintext, key, iv) ==
    [pt |-> plaintext, key |-> key, iv |-> iv, flipped |-> FALSE]

\* What aes::decrypt followed by the JSON parser makes of blob under key and
\* iv: "plain" when they are the ones the blob was made with.  With the right
\* key and another IV only the first block (the fixed opening of the
\* document) is garbled: the padding stays valid and the text is no JSON.
\* Otherwise the outcome depends on the bytes: g, one of "pad_error",
\* "not_json", "json".
decrypt_outcome(blob, key, iv, g) ==
    IF ~blob.flipped /\ blob.key = key /\ blob.iv = iv THEN "plain"
    ELSE IF ~blob.flipped /\ blob.key = key THEN "not_json"
    ELSE g

\* --------------------------------------------------------------- container

\* The result of from_input: the error kind ("ok" for none), the steps run
\* in order (reading the version, reading the rest of the header and the
\* blob, deriving the key, decrypting, parsing, verifying the signature),
\* and the store built.
open_result(err, steps, st) == [err |-> err, steps |-> steps, store |-> st]

\* The store from_input returns on success.
opened_store(master_password, key, scrypt_log2_n, scrypt_r, scrypt_p, salt, passwords) ==
    [key |-> key, scrypt_log2_n |-> scrypt_log2_n, scrypt_r |-> scrypt_r,
     scrypt_p |-> scrypt_p, salt |-> salt, passwords |-> passwords,
     master_password |-> master_password]

\* A file is the sequence of its bytes, with the salt, the IV, the signature
\* and the encrypted blob one element each: 4 bytes version, 1 byte log2_n,
\* 4 bytes r, 4 bytes p, salt, iv, signature, blob.
\* from_input after the header has been read: derive the key, decrypt and
\* parse, and only then verify the signature.
from_input_body(master_password, st, input, g) ==
    LET scrypt_log2_n == input[5]
        scrypt_r == read_u32_be(SubSeq(input, 6, 9))
        scrypt_p == read_u32_be(SubSeq(input, 10, 13))
        salt == input[14]
        iv == input[15]
        old_signature_mac == input[16]
        blob == input[17]
        key == generate_encryption_key(master_password, salt, scrypt_log2_n,
                                       scrypt_r, scrypt_p)
        outcome == decrypt_outcome(blob, key, iv, g)
        passwords == IF outcome = "plain" THEN from_str(blob.pt) ELSE <<>>
        msg == digest_blob_with_metadata(read_u32_be(SubSeq(input, 1, 4)),
                   scrypt_log2_n, scrypt_r, scrypt_p, iv, salt, blob)
    IN  IF kdf_fails(scrypt_log2_n, scrypt_r, scrypt_p)
        THEN open_result("panic", <<"read_version", "read_header", "derive">>, st)
        ELSE IF outcome = "pad_error"
        THEN open_result("DecryptionError", <<"read_version", "read_header", "derive", "decrypt">>, st)
        ELSE IF outcome = "not_json"
        THEN open_result("InvalidJsonError",
                         <<"read_version", "read_header", "derive", "decrypt", "parse">>, st)
        ELSE IF ~hmac_verify(old_signature_mac, msg, key)
        THEN open_result("CorruptionError",
                         <<"read_version", "read_header", "derive", "decrypt", "parse", "verify">>, st)
        ELSE open_result("ok", <<"read_version", "read_header", "derive", "decrypt", "parse", "verify">>,
                         opened_store(master_password, key, scrypt_log2_n, scrypt_r,
                                      scrypt_p, salt, passwords))

\* from_input as it would be if it read the whole header before it looked at
\* the version.
from_input_header_first(master_password, st, input, g) ==
    IF Len(input) < 16
    THEN open_result("Io", <<"read_version", "read_header">>, st)
    ELSE IF read_u32_be(SubSeq(input, 1, 4)) > VERSION
    THEN open_result("OutdatedRoosterBinaryError", <<"read_version", "read_header">>, st)
    ELSE IF read_u32_be(SubSeq(input, 1, 4)) < VERSION
    THEN open_result("NeedUpgradeErrorFromV1", <<"read_version", "read_header">>, st)
    ELSE IF Len(input) = 16
    THEN open_result("DecryptionError",
                     <<"read_version", "read_header", "derive", "decrypt">>, st)
    ELSE from_input_body(master_password, st, input, g)

\* from_input as it would be if it went on with the fields it has when the
\* input ends inside the IV or the signature.
from_input_partial_header(master_password, st, input, g) ==
    IF Len(input) < 4 THEN open_result("Io", <<"read_version">>, st)
    ELSE IF read_u32_be(SubSeq(input, 1, 4)) > VERSION
    THEN open_result("OutdatedRoosterBinaryError", <<"read_version">>, st)
    ELSE IF read_u32_be(SubSeq(input, 1, 4)) < VERSION
    THEN open_result("NeedUpgradeErrorFromV1", <<"read_version">>, st)
    ELSE IF Len(input) < 14
    THEN open_result("Io", <<"read_version", "read_header">>, st)
    ELSE IF Len(input) <= 16
    THEN open_result("DecryptionError",
                     <<"read_version", "read_header", "derive", "decrypt">>, st)
    ELSE from_input_body(master_password, st, input, g)

\* from_input: the version check, the header reads (a short read is an I/O
\* error), then the body above.  A file that ends with the signature has an
\* empty blob, which has no padding block to decrypt.  st is the store the
\* caller holds, returned untouched on failure.
from_input(master_password, st, input, g) ==
    IF Len(input) < 4 THEN open_result("Io", <<"read_version">>, st)
    ELSE IF read_u32_be(SubSeq(input, 1, 4)) > VERSION
    THEN open_result("OutdatedRoosterBinaryError", <<"read_version">>, st)
    ELSE IF read_u32_be(SubSeq(input, 1, 4)) < VERSION
    THEN open_result("NeedUpgradeErrorFromV1", <<"read_version">>, st)
    ELSE IF Len(input) < 16
    THEN open_result("Io", <<"read_version", "read_header">>, st)
    ELSE IF Len(input) = 16
    THEN IF kdf_fails(input[5], read_u32_be(SubSeq(input, 6, 9)),
                      read_u32_be(SubSeq(input, 10, 13)))
         THEN open_result("panic", <<"read_version", "read_header", "derive">>, st)
         ELSE open_result("DecryptionError", <<"read_version", "read_header", "derive", "decrypt">>, st)
    ELSE from_input_body(master_password, st, input, g)

\* from_input as a build with overflow checks (overflow_checks TRUE) or
\* without runs it: with them the shift in generate_encryption_key panics
\* on a log2_n of 64 or more, once the header of a version 2 file is read.
from_input_build(master_password, st, input, g, overflow_checks) ==
    IF /\ overflow_checks
       /\ Len(input) >= 16
       /\ read_u32_be(SubSeq(input, 1, 4)) = VERSION
       /\ shl_overflows(input[5])
    THEN open_result("panic", <<"read_version", "read_header", "derive">>, st)
    ELSE from_input(master_password, st, input, g)

\* The builds that read input differently: both when its log2_n makes the
\* shift overflow, else one stands for both.
Builds(input) ==
    IF Len(input) >= 5 /\ shl_overflows(input[5]) THEN {TRUE, FALSE} ELSE {FALSE}

\* sync as it would be if it wrote an empty entry list.
sync_bytes_no_entries(st, iv) ==
    LET encrypted == aes_encrypt(to_string(<<>>), st.key, iv)
        signature == digest(st.key, VERSION, st.scrypt_log2_n, st.scrypt_r,
                            st.scrypt_p, iv, st.salt, encrypted)
    IN  write_u32_be(VERSION) \o <<st.scrypt_log2_n>> \o write_u32_be(st.scrypt_r)
            \o write_u32_be(st.scrypt_p) \o <<st.salt>> \o <<iv>>
            \o <<signature>> \o <<encrypted>>

\* sync as it would be if it encrypted under a fixed IV and wrote the drawn
\* one to the header.
sync_bytes_fixed_iv(st, iv) ==
    LET encrypted == aes_encrypt(to_string(st.passwords), st.key, "iv1")
        signature == digest(st.key, VERSION, st.scrypt_log2_n, st.scrypt_r,
                            st.scrypt_p, iv, st.salt, encrypted)
    IN  write_u32_be(VERSION) \o <<st.scrypt_log2_n>> \o write_u32_be(st.scrypt_r)
            \o write_u32_be(st.scrypt_p) \o <<st.salt>> \o <<iv>>
            \o <<signature>> \o <<encrypted>>

\* The bytes sync writes for store st with the fresh IV iv.
sync_bytes(st, iv) ==
    LET encrypted == aes_encrypt(to_string(st.passwords), st.key, iv)
        signature == digest(st.key, VERSION, st.scrypt_log2_n, st.scrypt_r,
                            st.scrypt_p, iv, st.salt, encrypted)
    IN  write_u32_be(VERSION) \o <<st.scrypt_log2_n>> \o write_u32_be(st.scrypt_r)
            \o write_u32_be(st.scrypt_p) \o <<st.salt>> \o <<iv>>
            \o <<signature>> \o <<encrypted>>

\* The steps of sync in the order the code runs them.
sync_steps ==
    <<"serialize", "iv", "encrypt", "seek", "truncate", "write_version",
      "write_params", "write_salt", "write_iv", "mac", "write_mac", "write_blob",
      "flush">>

\* The position of a step in sync_steps.
step_index(step) == CHOOSE i \in 1 .. Len(sync_steps) : sync_steps[i] = step

\* written_before as it would be if every write reached the file at once,
\* whichever step fails afterwards.
written_before_at_once(step) == 17

\* How many elements of the new file are on disk when a step of sync that
\* follows the truncation begins.
written_before(step) ==
    CASE step = "write_version" -> 0
      [] step = "write_params" -> 4
      [] step = "write_salt" -> 13
      [] step = "write_iv" -> 14
      [] step \in {"mac", "write_mac"} -> 15
      [] step = "write_blob" -> 16
      [] step = "flush" -> 17

\* The error a failing step of sync ends the call with: the HMAC primitive
\* failing is a panic, the others are returned.
sync_error(step) ==
    CASE step = "serialize" -> "InvalidJsonError"
      [] step = "encrypt" -> "EncryptionError"
      [] step = "mac" -> "panic"
      [] OTHER -> "Io"

\* sync(file) with the IV drawn and the step that fails ("none" when every
\* step succeeds): the error kind, the file afterwards and the steps run.
\* A step that fails before the truncation leaves the file as it was; one
\* that fails after it leaves what was written until then.
sync(st, file_before, iv, fail) ==
    IF fail = "none"
    THEN [err |-> "ok", file |-> sync_bytes(st, iv), steps |-> sync_steps]
    ELSE [err |-> sync_error(fail),
          file |-> IF step_index(fail) <= step_index("truncate") THEN file_before
                   ELSE SubSeq(sync_bytes(st, iv), 1, written_before(fail)),
          steps |-> SubSeq(sync_steps, 1, step_index(fail))]

\* PasswordStore::new as it would be if it derived the key before it drew
\* the salt (from the zeroed salt buffer "s0").
new_store_zero_salt_key(master_password, salt) ==
    [key |-> generate_encryption_key(master_password, "s0", SCRYPT_PARAM_LOG2_N,
                                     SCRYPT_PARAM_R, SCRYPT_PARAM_P),
     scrypt_log2_n |-> SCRYPT_PARAM_LOG2_N, scrypt_r |-> SCRYPT_PARAM_R,
     scrypt_p |-> SCRYPT_PARAM_P, salt |-> salt, passwords |-> <<>>,
     master_password |-> master_password]

\* PasswordStore::new
new_store(master_password, salt) ==
    [key |-> generate_encryption_key(master_password, salt, SCRYPT_PARAM_LOG2_N,
                                     SCRYPT_PARAM_R, SCRYPT_PARAM_P),
     scrypt_log2_n |-> SCRYPT_PARAM_LOG2_N, scrypt_r |-> SCRYPT_PARAM_R,
     scrypt_p |-> SCRYPT_PARAM_P, salt |-> salt, passwords |-> <<>>,
     master_password |-> master_password]

\* change_master_password as it would be if it derived the key from the
\* retained master password instead of its argument.
change_master_password_retained(st, master_password) ==
    [st EXCEPT !.key = generate_encryption_key(st.master_password, st.salt,
                           st.scrypt_log2_n, st.scrypt_r, st.scrypt_p)]

\* change_master_password: the key is derived from the new master password;
\* the retained master_password field is not assigned.
change_master_password(st, master_password) ==
    [st EXCEPT !.key = generate_encryption_key(master_password, st.salt,
                           st.scrypt_log2_n, st.scrypt_r, st.scrypt_p)]

\* change_scrypt_params as it would be if it drew a new salt.
change_scrypt_params_new_salt(st, scrypt_log2_n, scrypt_r, scrypt_p) ==
    [st EXCEPT !.scrypt_log2_n = scrypt_log2_n, !.scrypt_r = scrypt_r,
               !.scrypt_p = scrypt_p, !.salt = "s2",
               !.key = generate_encryption_key(st.master_password, "s2",
                           scrypt_log2_n, scrypt_r, scrypt_p)]

\* change_scrypt_params: sets the parameters and derives the key from the
\* retained master_password field.
change_scrypt_params(st, scrypt_log2_n, scrypt_r, scrypt_p) ==
    [st EXCEPT !.scrypt_log2_n = scrypt_log2_n, !.scrypt_r = scrypt_r,
               !.scrypt_p = scrypt_p,
               !.key = generate_encryption_key(st.master_password, st.salt,
                           scrypt_log2_n, scrypt_r, scrypt_p)]

\* ---------------------------------------------------------------- commands

\* How often a command asks for the master password.
MaxAttempts == 3

\* A command opening the vault, as the retry tests show it: the master
\* password is read and from_input called, again after a failure, until a
\* call succeeds or MaxAttempts have failed.  typed are the lines waiting on
\* the input.  exit 0 with the store read, or exit 1 with the message that
\* decryption keeps failing; asked counts the passwords read.
RECURSIVE ask_master_password(_, _, _, _, _)
ask_master_password(typed, asked, st, input, g) ==
    IF asked = MaxAttempts \/ typed = <<>>
    THEN [exit |-> 1, asked |-> asked, store |-> st, message |-> "keeps failing"]
    ELSE LET res == from_input(Head(typed), st, input, g) IN
         IF res.err = "ok"
         THEN [exit |-> 0, asked |-> asked + 1, store |-> res.store, message |-> ""]
         ELSE ask_master_password(Tail(typed), asked + 1, st, input, g)

\* The same with one attempt fewer.
open_vault_two_attempts(typed, st, input, g) ==
    ask_master_password(SubSeq(typed, 1, 2), 1, st, input, g)

\* get_password_store: the file read, the master password asked for.
open_vault(typed, st, input, g) == ask_master_password(typed, 0, st, input, g)

\* The field each editing command's closure replaces besides updated_at.
edited_field(cmd) ==
    CASE cmd = "rename" -> "name"
      [] cmd = "transfer" -> "username"
      [] cmd = "change" -> "password"
      [] cmd = "regenerate" -> "password"

\* The closure rename, transfer, change or regenerate hands to
\* change_password: value in the command's field, t (ffi::time()) in
\* updated_at, the rest taken from the old entry.
edit_closure(cmd, value, t) ==
    [name |-> IF edited_field(cmd) = "name" THEN <<value>> ELSE <<>>,
     username |-> IF edited_field(cmd) = "username" THEN <<value>> ELSE <<>>,
     password |-> IF edited_field(cmd) = "password" THEN <<value>> ELSE <<>>,
     updated_at |-> <<t>>]

\* rename, transfer, change, regenerate on the entry selected:
\* change_password under the selected entry's name, exit status 1 when it
\* returns an error.
edit_command(passwords, cmd, selected, value, t) ==
    LET c == change_password(passwords, selected.name,
                 edit_closure(cmd, value, t))
    IN  [exit |-> IF c.err = "ok" THEN 0 ELSE 1, err |-> c.err,
         passwords |-> c.passwords]

RECURSIVE import_valid(_, _, _)
\* The loop of import_passwords over the valid records: a record whose name
\* get_password finds is a warning, one add_password refuses an error, any
\* other is added.  acc holds the counters and the entry list.
import_valid(valid, k, acc) ==
    IF k > Len(valid) THEN acc
    ELSE LET password == valid[k]
             a == add_password(acc.passwords, password)
         IN  IF get_password(acc.passwords, password.name) # <<>>
             THEN import_valid(valid, k + 1,
                      [acc EXCEPT !.warnings = acc.warnings + 1])
             ELSE IF a.err # "ok"
             THEN import_valid(valid, k + 1,
                      [acc EXCEPT !.errors = acc.errors + 1])
             ELSE import_valid(valid, k + 1,
                      [acc EXCEPT !.successes = acc.successes + 1,
                                  !.passwords = a.passwords])

\* import_passwords: every invalid record is an error, then the valid ones
\* are taken in order; the command returns Ok.
import_passwords(valid, invalid, passwords) ==
    import_valid(valid, 1,
        [errors |-> Len(invalid), warnings |-> 0, successes |-> 0,
         passwords |-> passwords])

\* The exit status of a process that panicked.
PanicExit == 101

\* set-scrypt-params as it would be if it let high values through without
\* --force.
set_scrypt_params_forced(st, log2_n, r, p, force) ==
    IF log2_n <= 0 \/ r <= 0 \/ p <= 0
    THEN [exit |-> 1, called |-> FALSE, store |-> st]
    ELSE IF kdf_fails(log2_n, r, p)
    THEN [exit |-> PanicExit, called |-> TRUE, store |-> st]
    ELSE [exit |-> 0, called |-> TRUE,
          store |-> change_scrypt_params(st, log2_n, r, p)]

\* The set-scrypt-params command on the parsed log2n, r and p: exit status
\* 1 for a value of 0 and, without --force, for a high value; otherwise
\* change_scrypt_params is called, which aborts the process where the key
\* derivation fails.
set_scrypt_params(st, log2_n, r, p, force) ==
    IF log2_n <= 0 \/ r <= 0 \/ p <= 0
    THEN [exit |-> 1, called |-> FALSE, store |-> st]
    ELSE IF ~force /\ (log2_n > 20 \/ r > 8 \/ p > 1)
    THEN [exit |-> 1, called |-> FALSE, store |-> st]
    ELSE IF kdf_fails(log2_n, r, p)
    THEN [exit |-> PanicExit, called |-> TRUE, store |-> st]
    ELSE [exit |-> 0, called |-> TRUE,
          store |-> change_scrypt_params(st, log2_n, r, p)]

\* ----------------------------------------------------------------- release

\* What becomes of a buffer's storage when its owner is dropped, by the type
\* that owns it: SafeString::drop writes zeros over the bytes, SafeVec is a
\* secret buffer and does the same, a String is freed as it is.
safe_string_drop(content) == [type |-> "SafeString", content |-> content, zeroed |-> TRUE]

safe_vec_drop(content) == [type |-> "SafeVec", content |-> content, zeroed |-> TRUE]

string_drop(content) == [type |-> "String", content |-> content, zeroed |-> FALSE]

\* Dropping a PasswordStore drops its fields: key (SafeVec), the entries'
\* password fields (SafeString), master_password (String).  The buffers
\* released that hold a secret, each with the field it was.
drop_store(st) ==
    <<[field |-> "key", buffer |-> safe_vec_drop(st.key)]>>
        \o [i \in 1 .. Len(st.passwords) |->
                [field |-> "password", buffer |-> safe_string_drop(st.passwords[i].password)]]
        \o <<[field |-> "master_password", buffer |-> string_drop(st.master_password)]>>

\* No store is held: the one there was has been dropped.
NoStore == [dropped |-> TRUE]

\* ------------------------------------------------------------------ inputs

Masters == {"m1", "m2"}

Salts == {"s1", "s2"}

IVs == {"iv1", "iv2"}

\* (log2_n, r, p) given to change_scrypt_params.
ParamChoices == {<<12, 8, 1>>, <<13, 8, 1>>}

\* Byte values a changed header byte takes.
ByteChoices == {0, 1, 3}

\* Outcomes of decrypting and parsing with a key or IV the blob was not made
\* with, or a changed blob.
GarbageOutcomes == {"pad_error", "not_json", "json"}

\* Names: "A" "a" "k" and U+212A.
Names == {<<c>> : c \in Chars}

\* Values of ffi::time().
Times == {0}

\* Secrets: "", "p", "q".
Secrets == {<<>>, <<112>>, <<113>>}

\* Password::new(name, "u", secret) at time t.
new_password(name, secret, t) ==
    [name |-> name, username |-> <<117>>, password |-> secret,
     created_at |-> t, updated_at |-> t]

\* Entries given to add_password by the entry specification.
StoreEntries == {new_password(n, s, t) : n \in Names, s \in Secrets, t \in Times}

\* Closures given to change_password: the identity, a rename, a new
\* password (possibly empty), a new username "v".
Closures(names) ==
    {[name |-> <<>>, username |-> <<>>, password |-> <<>>, updated_at |-> <<>>]}
    \cup {[name |-> <<n>>, username |-> <<>>, password |-> <<>>, updated_at |-> <<t>>] :
            n \in names, t \in Times}
    \cup {[name |-> <<>>, username |-> <<>>, password |-> <<s>>, updated_at |-> <<t>>] :
            s \in Secrets, t \in Times}
    \cup {[name |-> <<>>, username |-> << <<118>> >>, password |-> <<>>,
           updated_at |-> <<t>>] : t \in Times}

\* The closures that leave the username alone (rename, change, regenerate).
EditClosures(names) == {t \in Closures(names) : t.username = <<>>}

\* Names and entries of the vault specifications: "a" and "k", secrets ""
\* and "p", time 0.
VaultNames == {<<97>>, <<107>>}

VaultEntries == {new_password(n, s, 0) : n \in VaultNames, s \in {<<>>, <<112>>}}

\* The entries of the vault's life: "a" with secret "" or "p".
LifeNames == {<<97>>}

LifeEntries == {new_password(n, s, 0) : n \in LifeNames, s \in {<<>>, <<112>>}}

\* Names of the search specification: "ab" "Ba" and two with
\* characters outside ASCII, "\u00E9a" (e acute) and "\u0130" (capital I
\* with dot above, whose lowercase is "i" and U+0307).
SearchNames == {<<97, 98>>, <<66, 97>>, <<233, 97>>, <<304>>}

SearchEntries == {new_password(n, <<112>>, 0) : n \in SearchNames}

\* Queries: "" "a" "AB" "b" "\u00E9" "\u00E9a" "\u0130\u0307".
Queries == {<<>>, <<97>>, <<65, 66>>, <<98>>, <<233>>, <<233, 97>>, <<304, 775>>}

RECURSIVE SeqsUpTo(_, _)
\* The sequences over S of length at most n.
SeqsUpTo(S, n) ==
    IF n = 0 THEN {<<>>}
    ELSE SeqsUpTo(S, n - 1)
         \cup {Append(q, x) : q \in {r \in SeqsUpTo(S, n - 1) : Len(r) = n - 1}, x \in S}

\* ------------------------------------------------------------------- state

\* The record of an operation on the container: before, arg, ret and undo
\* are those of the entry operations (below) and empty here.
Last(op, err, master, steps) ==
    [op |-> op, err |-> err, master |-> master, steps |-> steps,
     before |-> <<>>, arg |-> <<>>, ret |-> <<>>, undo |-> <<>>]

\* The record of an entry operation: the entry list before the call, the
\* arguments, what was returned (<<>> for nothing) and, for a
\* delete_password(e.name) that directly follows a successful
\* add_password(e), <<the entry list before that add>> in undo.
LastEntryOp(op, err, before, arg, ret, undo) ==
    [op |-> op, err |-> err, master |-> "", steps |-> <<>>,
     before |-> before, arg |-> arg, ret |-> ret, undo |-> undo]

NoSync == [valid |-> FALSE]

FreshHist(m) ==
    [cur |-> m, prev |-> m, base |-> m, path |-> "plain", pending |-> FALSE,
     attached |-> FALSE]

\* The state after PasswordStore::new(m) with a random salt.
Init ==
    \E m \in Masters, s \in Salts :
        /\ store = new_store(m, s)
        /\ file = <<>>
        /\ last = Last("new", "ok", m, <<>>)
        /\ hist = FreshHist(m)
        /\ synced = NoSync
        /\ tamper = 0

\* add_password(e)
Add(entries, max) ==
    \E e \in entries :
        LET a == add_password(store.passwords, e) IN
        /\ a.err = "ok" => Len(store.passwords) < max
        /\ store' = [store EXCEPT !.passwords = a.passwords]
        /\ last' = LastEntryOp("add", a.err, store.passwords, <<e>>, <<>>, <<>>)
        /\ UNCHANGED <<file, hist, synced, tamper>>

\* delete_password(n)
Delete(names) ==
    \E n \in names :
        LET d == delete_password(store.passwords, n) IN
        /\ store' = [store EXCEPT !.passwords = d.passwords]
        /\ last' = LastEntryOp("delete", d.err, store.passwords, <<n>>, d.removed,
                    IF last.op = "add" /\ last.err = "ok" /\ last.arg[1].name = n
                    THEN <<last.before>> ELSE <<>>)
        /\ UNCHANGED <<file, hist, synced, tamper>>

\* change_password(n, closure)
Change(names, closures) ==
    \E n \in names, t \in closures :
        LET c == change_password(store.passwords, n, t) IN
        /\ store' = [store EXCEPT !.passwords = c.passwords]
        /\ last' = LastEntryOp("change", c.err, store.passwords, <<n, t>>, c.ret, <<>>)
        /\ UNCHANGED <<file, hist, synced, tamper>>

\* get_password(n) and has_password(n)
Get(names) ==
    \E n \in names :
        /\ last' = LastEntryOp("get", "ok", store.passwords, <<n>>,
                        get_password(store.passwords, n), <<>>)
        /\ UNCHANGED <<store, file, hist, synced, tamper>>

\* format!("{:?}", entry) and format!("{:?}", entry.password) of the entry
\* get_password(n) returns: ret holds the two texts.
Debug(names) ==
    \E n \in names :
        LET found == get_password(store.passwords, n) IN
        /\ found # <<>>
        /\ last' = LastEntryOp("debug", "ok", store.passwords, <<n>>,
                        <<password_debug(found[1]),
                          safe_string_debug(found[1].password)>>, <<>>)
        /\ UNCHANGED <<store, file, hist, synced, tamper>>

\* The caller holds a store.
Held == store # NoStore

\* The store is dropped; ret holds the secret buffers released.
Release ==
    /\ Held
    /\ last' = LastEntryOp("release", "ok", <<>>, <<>>, drop_store(store), <<>>)
    /\ store' = NoStore
    /\ UNCHANGED <<file, hist, synced, tamper>>

\* A command that opens the vault and writes nothing (list), run on the file
\* as sync wrote it, with the lines typed as master passwords in arg and
\* the exit status and the number of passwords asked for in ret.
Command(masters) ==
    /\ synced.valid /\ tamper = 0
    /\ \E typed \in [1 .. MaxAttempts -> masters] :
        LET res == open_vault(typed, store, file, "pad_error") IN
        /\ store' = res.store
        /\ last' = LastEntryOp("command", res.message, <<>>, typed,
                        <<res.exit, res.asked>>, <<>>)
        /\ hist' = IF res.exit = 0
                   THEN [FreshHist(typed[res.asked]) EXCEPT !.attached = TRUE]
                   ELSE hist
    /\ UNCHANGED <<file, synced, tamper>>

\* The editing commands.
EditCommands == {"rename", "transfer", "change", "regenerate"}

\* What an editing command is given as the new value of its field: a name
\* "a" or "k", the username "v", a typed secret "" or "q", a generated
\* secret "q".
EditValues(cmd) ==
    CASE cmd = "rename" -> VaultNames
      [] cmd = "transfer" -> {<<118>>}
      [] cmd = "change" -> {<<>>, <<113>>}
      [] cmd = "regenerate" -> {<<113>>}

\* Value of ffi::time() when an editing command runs.
EditTime == 1

\* rename, transfer, change or regenerate on the entry at position i of the
\* list (the one the user selected): arg holds i, the new value and the
\* time, ret the exit status.
EditCommand ==
    \E cmd \in EditCommands, i \in 1 .. Len(store.passwords) :
        \E value \in EditValues(cmd) :
            LET res == edit_command(store.passwords, cmd, store.passwords[i],
                           value, EditTime)
            IN  /\ store' = [store EXCEPT !.passwords = res.passwords]
                /\ last' = LastEntryOp(cmd, res.err, store.passwords,
                                <<i, value, EditTime>>, <<res.exit>>, <<>>)
                /\ UNCHANGED <<file, hist, synced, tamper>>

\* Records of an imported file: names "A", "k" and U+212A, secrets "" and
\* "p", made at time 1.
ImportEntries ==
    {new_password(n, sec, 1) : n \in {<<65>>, <<107>>, <<8490>>},
                                sec \in {<<>>, <<112>>}}

\* Longest list of valid records, and of invalid ones, in an imported file.
MaxValid == 2

MaxInvalid == 1

\* The import command on a file that was read: arg holds the valid and the
\* invalid records, ret the numbers printed as Imported, Warnings, Errors.
Import ==
    \E valid \in SeqsUpTo(ImportEntries, MaxValid),
       invalid \in SeqsUpTo({new_password(<<97>>, <<112>>, 1)}, MaxInvalid) :
        LET res == import_passwords(valid, invalid, store.passwords) IN
        /\ store' = [store EXCEPT !.passwords = res.passwords]
        /\ last' = LastEntryOp("import", "ok", store.passwords,
                        <<valid, invalid>>,
                        <<res.successes, res.warnings, res.errors>>, <<>>)
        /\ UNCHANGED <<file, hist, synced, tamper>>

\* Values of --log2n, -r and -p given to set-scrypt-params.
CommandLog2N == {0, 1, 20, 21, 32}

CommandR == {0, 8, 9}

CommandP == {0, 1, 2}

\* The set-scrypt-params command, with its arguments and --force in arg, the
\* parameters and key of the store before in before, and the exit status
\* and whether change_scrypt_params was called in ret.
SetScryptParams ==
    \E log2_n \in CommandLog2N, r \in CommandR, p \in CommandP,
       force \in BOOLEAN :
        LET res == set_scrypt_params(store, log2_n, r, p, force) IN
        /\ store' = res.store
        /\ last' = LastEntryOp("set_scrypt_params",
                        IF res.exit = PanicExit THEN "panic" ELSE "ok",
                        <<store.scrypt_log2_n, store.scrypt_r, store.scrypt_p,
                          store.key>>,
                        <<log2_n, r, p, force>>, <<res.exit, res.called>>, <<>>)
        /\ hist' = IF res.exit # 0 \/ hist.path = "plain" THEN hist
                   ELSE [hist EXCEPT !.path = "cmp_kdf"]
        /\ UNCHANGED <<file, synced, tamper>>

\* get_all_passwords()
List ==
    /\ last' = LastEntryOp("list", "ok", store.passwords, <<>>,
                    get_all_passwords(store.passwords), <<>>)
    /\ UNCHANGED <<store, file, hist, synced, tamper>>

\* search_passwords(q)
Search(queries) ==
    \E q \in queries :
        LET r == search_passwords(store.passwords, q) IN
        /\ last' = LastEntryOp("search", r.err, store.passwords, <<q>>, r.ret, <<>>)
        /\ UNCHANGED <<store, file, hist, synced, tamper>>

\* change_master_password(m)
ChangeMaster ==
    \E m \in Masters :
        /\ store' = change_master_password(store, m)
        /\ last' = Last("change_master_password", "ok", "", <<>>)
        /\ hist' = [hist EXCEPT !.prev = hist.cur, !.cur = m, !.path = "cmp",
                                !.pending = TRUE]
        /\ UNCHANGED <<file, synced, tamper>>

\* change_scrypt_params(log2_n, r, p), with the positive values the
\* set-scrypt-params command lets through.
ChangeScrypt ==
    \E ps \in ParamChoices :
        /\ store' = change_scrypt_params(store, ps[1], ps[2], ps[3])
        /\ last' = Last("change_scrypt_params", "ok", "", <<>>)
        /\ hist' = [hist EXCEPT !.path = IF hist.path = "plain" THEN "plain"
                                         ELSE "cmp_kdf"]
        /\ UNCHANGED <<file, synced, tamper>>

\* sync(file): a fresh IV is drawn and the file rewritten; fails names the
\* steps that may fail ("none" for a sync that succeeds).  The IV drawn is
\* recorded in last.arg, the IV field of the file before in last.before.  A failed sync that wrote to the file leaves tamper
\* at 1: the file is no longer as a sync wrote it.
Sync(ivs, fails) ==
    \E iv \in ivs, fail \in fails :
        LET res == sync(store, file, iv, fail) IN
        /\ file' = res.file
        /\ last' = [Last("sync", res.err, "", res.steps) EXCEPT
                        !.arg = <<iv>>,
                        !.before = IF Len(file) >= 15 THEN <<file[15]>> ELSE <<>>]
        /\ synced' = IF res.err # "ok" THEN synced
                      ELSE [valid |-> TRUE, passwords |-> store.passwords,
                            salt |-> store.salt,
                            params |-> <<store.scrypt_log2_n, store.scrypt_r,
                                         store.scrypt_p>>,
                            key |-> store.key,
                            cur |-> hist.cur, prev |-> hist.prev, base |-> hist.base,
                            path |-> hist.path,
                            pending |-> hist.pending]
        /\ hist' = IF res.err # "ok" THEN hist
                    ELSE [hist EXCEPT !.base = hist.cur, !.pending = FALSE,
                                      !.attached = (hist.path # "cmp_kdf")]
        /\ tamper' = IF res.err = "ok" THEN 0
                      ELSE IF res.file = file THEN tamper ELSE 1
        /\ UNCHANGED store

\* from_input(m, file): on success the caller holds the store read.  g is
\* what decrypting with a wrong key or IV would yield, overflow_checks the
\* build that runs it.
Open(masters, outcomes) ==
    \E m \in masters, g \in outcomes, overflow_checks \in Builds(file) :
        LET res == from_input_build(m, store, file, g, overflow_checks) IN
        /\ store' = res.store
        /\ last' = Last("open", res.err, m, res.steps)
        /\ hist' = IF res.err = "ok" THEN [FreshHist(m) EXCEPT !.attached = TRUE]
                   ELSE hist
        /\ UNCHANGED <<file, synced, tamper>>

\* The values position i of the file can be changed to: another byte in the
\* header integers, another salt, another IV, a signature or a blob with a
\* changed byte.
Changed(i) ==
    IF i <= 13 THEN ByteChoices \ {file[i]}
    ELSE IF i = 14 THEN {"sx"}
    ELSE IF i = 15 THEN {"ivx"}
    ELSE {[file[i] EXCEPT !.flipped = TRUE]}

\* Values of the log2_n byte: 0, 1, 30, the first that does not fit 32 bits,
\* the last that fits 64, the first that does not, one that wraps to 12,
\* and the largest.
Log2NChoices == {0, 1, 30, 32, 63, 64, 76, 255}

\* The log2_n byte of the file as written is changed on disk.
TamperLog2N ==
    /\ Len(file) >= 5
    /\ tamper = 0
    /\ \E v \in Log2NChoices \ {file[5]} :
        file' = [file EXCEPT ![5] = v]
    /\ tamper' = 5
    /\ last' = Last("tamper", "ok", "", <<>>)
    /\ UNCHANGED <<store, hist, synced>>

\* One position of the file as written is changed on disk.
Tamper ==
    /\ file # <<>>
    /\ tamper = 0
    /\ \E i \in 1 .. Len(file) :
        \E v \in Changed(i) :
            /\ file' = [file EXCEPT ![i] = v]
            /\ tamper' = i
    /\ last' = Last("tamper", "ok", "", <<>>)
    /\ UNCHANGED <<store, hist, synced>>

\* The file is cut short: its first k elements are left (a field that is
\* not wholly there is read like one that is missing).
Truncate ==
    /\ file # <<>>
    /\ \E k \in 0 .. (Len(file) - 1) :
        /\ file' = SubSeq(file, 1, k)
        /\ tamper' = IF tamper = 0 \/ tamper > k THEN k + 1 ELSE tamper
    /\ last' = Last("truncate", "ok", "", <<>>)
    /\ UNCHANGED <<store, hist, synced>>

\* The file is replaced by one another writer made with master password m:
\* well-formed and signed, holding any list of entry records.
ForeignFile ==
    \E m \in Masters, pws \in SeqsUpTo(VaultEntries, MaxVaultEntries) :
        /\ file' = sync_bytes([new_store(m, "sf") EXCEPT !.passwords = pws], "ivf")
        /\ last' = Last("foreign", "ok", m, <<>>)
        /\ synced' = NoSync
        /\ hist' = [hist EXCEPT !.attached = FALSE]
        /\ tamper' = 0
        /\ UNCHANGED store

\* One store, as PasswordStore::new("m1") made it.
InitStore ==
    /\ store = new_store("m1", "s1")
    /\ file = <<>>
    /\ last = Last("new", "ok", "m1", <<>>)
    /\ hist = FreshHist("m1")
    /\ synced = NoSync
    /\ tamper = 0

\* The life of a vault: entries added and deleted, the master password and
\* the scrypt parameters changed, the file written and read back.
Next ==
    \/ Add(LifeEntries, MaxVaultEntries)
    \/ Delete(LifeNames)
    \/ ChangeMaster
    \/ ChangeScrypt
    \/ Sync({"iv1"}, {"none"})
    \/ Open(Masters, GarbageOutcomes)

Spec == InitStore /\ [][Next]_vars

\* A written file changed on disk, or read with another master password.
NextTamper ==
    \/ Add(VaultEntries, MaxVaultEntries)
    \/ Sync(IVs, {"none"})
    \/ Tamper
    \/ Open(Masters, GarbageOutcomes)

SpecTamper == Init /\ [][NextTamper]_vars

\* Closures of the frame specification: a new secret "q", and an empty one
\* (which change_password refuses).
FrameClosures ==
    {t \in EditClosures(LifeNames) :
        t.name = <<>> /\ t.password \in {<< <<>> >>, << <<113>> >>}}

\* Every operation on one vault, the file read back with either master
\* password (a wrong key decrypting to a padding error).
NextFrame ==
    \/ Add(LifeEntries, MaxVaultEntries)
    \/ Delete(LifeNames)
    \/ Change(LifeNames, FrameClosures)
    \/ ChangeMaster
    \/ ChangeScrypt
    \/ Sync({"iv1"}, {"none"})
    \/ Open(Masters, {"pad_error"})

SpecFrame == InitStore /\ [][NextFrame]_vars

\* Reading a written file that was changed or cut short.
NextRead ==
    \/ Add(VaultEntries, MaxVaultEntries)
    \/ Sync({"iv1"}, {"none"})
    \/ Tamper
    \/ Truncate
    \/ Open(Masters, GarbageOutcomes)

SpecRead == InitStore /\ [][NextRead]_vars

\* The steps of sync that can fail in the model: the cipher, the HMAC
\* primitive, and the writes to the file.
SyncFailures ==
    {"none", "encrypt", "seek", "truncate", "write_version", "write_params", "write_salt",
     "write_iv", "mac", "write_mac", "write_blob", "flush"}

\* Writing the file with syncs that may fail part-way.
NextSync ==
    \/ Add(LifeEntries, MaxVaultEntries)
    \/ Delete(LifeNames)
    \/ Sync(IVs, SyncFailures)
    \/ Open({"m1"}, {"pad_error"})

SpecSync == InitStore /\ [][NextSync]_vars

\* A vault whose file may come from another writer.
NextForeign ==
    \/ Add(VaultEntries, MaxVaultEntries)
    \/ Delete(VaultNames)
    \/ Change(VaultNames, Closures(VaultNames))
    \/ ForeignFile
    \/ Open(Masters, GarbageOutcomes)

SpecForeign == Init /\ [][NextForeign]_vars

\* The entry operations alone, on the full name universe.
NextStore ==
    \/ Add(StoreEntries, MaxEntries)
    \/ Delete(Names)
    \/ Change(Names, EditClosures(Names))
    \/ Get(Names)
    \/ List

SpecStore == InitStore /\ [][NextStore]_vars

\* Searching a store of names with characters of one, two and three bytes.
NextSearch ==
    \/ Add(SearchEntries, MaxEntries)
    \/ Delete(SearchNames)
    \/ Search(Queries)

SpecSearch == InitStore /\ [][NextSearch]_vars

\* Values ffi::time() returns in the timestamp specification.
ClockTimes == {0, 1}

\* Entries as Password::new makes them at either time.
TimeEntries == {new_password(n, <<112>>, t) : n \in VaultNames, t \in ClockTimes}

\* Closures that set a new secret and an updated_at of either time
\* (change_password takes any closure; the change command's sets updated_at
\* to the time it reads).
TimeClosures ==
    {[name |-> <<>>, username |-> <<>>, password |-> << <<113>> >>,
      updated_at |-> <<t>>] : t \in ClockTimes}

\* Entries added, changed and deleted at times the clock gives.
NextTime ==
    \/ Add(TimeEntries, MaxEntries)
    \/ Delete(VaultNames)
    \/ Change(VaultNames, TimeClosures)

SpecTime == InitStore /\ [][NextTime]_vars

\* Secrets of the rendering specification: "q", "z" and "zq", letters that
\* are in none of the literal pieces.
DebugSecrets == {<<113>>, <<122>>, <<122, 113>>}

\* Entries of the rendering specification: "a" and "k" with those secrets.
DebugEntries == {new_password(n, sec, 0) : n \in VaultNames, sec \in DebugSecrets}

\* Entries added and deleted, and rendered for debugging.
NextDebug ==
    \/ Add(DebugEntries, MaxEntries)
    \/ Delete(VaultNames)
    \/ Debug(VaultNames)

SpecDebug == InitStore /\ [][NextDebug]_vars

\* A vault used, written, dropped and read again: once the store is dropped
\* only from_input gives another.
NextRelease ==
    \/ Held /\ Add(LifeEntries, MaxVaultEntries)
    \/ Held /\ ChangeMaster
    \/ Held /\ Sync({"iv1"}, {"none"})
    \/ Open(Masters, {"pad_error"})
    \/ Release

SpecRelease == Init /\ [][NextRelease]_vars

\* A vault written and then opened by a command.
NextRetry ==
    \/ Add(LifeEntries, MaxVaultEntries)
    \/ ChangeMaster
    \/ Sync({"iv1"}, {"none"})
    \/ Command(Masters)

SpecRetry == Init /\ [][NextRetry]_vars

\* Reading a written file whose log2_n byte was changed.
NextKdf ==
    \/ Add(VaultEntries, MaxVaultEntries)
    \/ Sync({"iv1"}, {"none"})
    \/ TamperLog2N
    \/ Open(Masters, GarbageOutcomes)

SpecKdf == InitStore /\ [][NextKdf]_vars

\* The editing commands on entries added or read from a file which another
\* writer may have made.
NextEdit ==
    \/ Add(VaultEntries, MaxEntries)
    \/ ForeignFile
    \/ Open({"m1"}, {"pad_error"})
    \/ EditCommand

SpecEdit == InitStore /\ [][NextEdit]_vars

\* Entries "a" and "k" added, and lists of records imported.
NextImport ==
    \/ Add({new_password(n, <<112>>, 0) : n \in VaultNames}, MaxVaultEntries)
    \/ Delete(VaultNames)
    \/ Import

SpecImport == InitStore /\ [][NextImport]_vars

\* The scrypt parameters set from the command line.
NextParams ==
    \/ Add(LifeEntries, MaxVaultEntries)
    \/ SetScryptParams

SpecParams == InitStore /\ [][NextParams]_vars

\* ------------------------------------------------------------------ claims

\* The file is as the last sync wrote it.
AsWritten == synced.valid /\ tamper = 0

\* C1: no two distinct entries of the store have names that are equal after
\* lowercasing.
C1_UniqueLowercaseNames ==
    \A i, j \in 1 .. Len(store.passwords) :
        to_lowercase(store.passwords[i].name) = to_lowercase(store.passwords[j].name)
            => i = j

\* C2: when from_input has run, every decrypt or parse step it ran comes
\* after the step that verifies the signature.
C2_DecryptOnlyAfterMac ==
    last.op = "open" =>
        \A i \in 1 .. Len(last.steps) :
            last.steps[i] \in {"decrypt", "parse"} =>
                \E j \in 1 .. (i - 1) : last.steps[j] = "verify"

\* C3: opening the file sync wrote for a store made with master password M
\* with another master password fails with the signature-failure kind.
C3_WrongPasswordIsMacFailure ==
    (last.op = "open" /\ AsWritten /\ synced.path = "plain"
        /\ last.master # synced.cur)
        => last.err = "CorruptionError"

\* C4: opening, with the right master password, a written file one position
\* of which was changed fails with the signature-failure kind; for a changed
\* version byte it fails with that kind or one of the kinds a bad version
\* or a corrupt file is reported with.  It never succeeds.  (Changes that
\* make the key derivation itself fail are left aside.)
C4_TamperIsMacFailure ==
    (last.op = "open" /\ synced.valid /\ tamper # 0 /\ synced.path = "plain"
        /\ last.master = synced.cur /\ last.err # "panic")
        => IF tamper <= 4
           THEN last.err \in {"CorruptionError", "Io", "DecryptionError",
                              "OutdatedRoosterBinaryError", "NeedUpgradeErrorFromV1"}
           ELSE last.err = "CorruptionError"

\* The signature check of from_input is reached in the specified read order
\* (full header, supported version, key derived) and fails for master m.
MacFails(m) ==
    /\ Len(file) = 17
    /\ read_u32_be(SubSeq(file, 1, 4)) = VERSION
    /\ ~kdf_fails(file[5], read_u32_be(SubSeq(file, 6, 9)),
                  read_u32_be(SubSeq(file, 10, 13)))
    /\ ~hmac_verify(file[16],
            digest_blob_with_metadata(VERSION, file[5], read_u32_be(SubSeq(file, 6, 9)),
                read_u32_be(SubSeq(file, 10, 13)), file[15], file[14], file[17]),
            generate_encryption_key(m, file[14], file[5],
                read_u32_be(SubSeq(file, 6, 9)), read_u32_be(SubSeq(file, 10, 13))))

\* C5: any two runs of from_input on the file whose signature does not
\* verify return the same error kind, whatever the master password and
\* whatever decrypting and parsing would yield.
C5_OneErrorForMacFailure ==
    \A m1 \in Masters, m2 \in Masters, g1 \in GarbageOutcomes, g2 \in GarbageOutcomes :
        (MacFails(m1) /\ MacFails(m2))
            => from_input(m1, store, file, g1).err = from_input(m2, store, file, g2).err

\* C6: opening the file a sync wrote, with the master password current at
\* that sync, succeeds and yields the entries (in stored order), the salt and
\* the parameters the store had.
C6_RoundTrip ==
    (last.op = "open" /\ AsWritten /\ last.master = synced.cur)
        => /\ last.err = "ok"
           /\ store.passwords = synced.passwords
           /\ store.salt = synced.salt
           /\ <<store.scrypt_log2_n, store.scrypt_r, store.scrypt_p>> = synced.params

C8_ChangeMasterThenParams ==
    (last.op = "open" /\ AsWritten /\ synced.path = "cmp_kdf"
        /\ synced.cur # synced.prev)
        => /\ last.master = synced.cur => last.err = "ok"
           /\ last.master = synced.prev => last.err # "ok"

\* C9: the held key is the key derived from the retained master password,
\* the salt and the parameters of the store.
C9_KeyMatchesRetainedMaster ==
    store.key = generate_encryption_key(store.master_password, store.salt,
                    store.scrypt_log2_n, store.scrypt_r, store.scrypt_p)

\* C10: every entry of the store has a non-empty secret.
C10_SecretsNonEmpty ==
    \A i \in 1 .. Len(store.passwords) : Len(store.passwords[i].password) > 0

\* ------------------------------------------------- claims on the entry list

\* The set of the elements of a sequence.
Range(q) == {q[i] : i \in 1 .. Len(q)}

\* Two names are equal ignoring case: their lowercase forms are equal.
SameLower(a, b) == to_lowercase(a) = to_lowercase(b)

\* The positions of the entry list whose name equals name ignoring case.
Matching(passwords, name) ==
    {i \in 1 .. Len(passwords) : SameLower(passwords[i].name, name)}

\* C11: when change(name, transform) returns an error because inserting
\* transform(old) failed (empty secret or a colliding name), the old entry
\* is in the store again and the entries are the same set, in the same
\* number, as before the call.
C11_ChangeRollsBack ==
    (last.op = "change" /\ last.err \in {"EmptyPasswordError", "AppExistsError"})
        => /\ Range(store.passwords) = Range(last.before)
           /\ Len(store.passwords) = Len(last.before)
           /\ \E i \in Matching(last.before, last.arg[1]) :
                last.before[i] \in Range(store.passwords)

\* C12: when add, delete or change returns an error, the entry list of the
\* store, in its stored order, is the one before the call.
C12_ErrorLeavesListIdentical ==
    (last.op \in {"add", "delete", "change"} /\ last.err # "ok")
        => store.passwords = last.before

\* C13: add(e) with a non-empty secret, when the store holds an entry whose
\* name equals e.name ignoring case, returns AppExists and leaves the
\* entries as they were.
C13_AddDuplicateRejected ==
    (last.op = "add" /\ Len(last.arg[1].password) > 0
        /\ Matching(last.before, last.arg[1].name) # {})
        => /\ last.err = "AppExistsError"
           /\ store.passwords = last.before

\* C14: add(e) with an empty secret returns EmptySecret and leaves the
\* entries as they were, whether or not an entry of that name exists.
C14_EmptySecretRejectedFirst ==
    (last.op = "add" /\ Len(last.arg[1].password) = 0)
        => /\ last.err = "EmptyPasswordError"
           /\ store.passwords = last.before

\* C14's case: an entry with an empty secret and the name of a stored entry
\* was given to add.
C14_Witness ==
    /\ last.op = "add" /\ Len(last.arg[1].password) = 0
    /\ has_password(last.before, last.arg[1].name)
    /\ last.err = "EmptyPasswordError"
    /\ Len(store.passwords) > 0

\* C15: a change(name, transform) that succeeds returns new =
\* transform(old) for the entry old matched by name ignoring case; the store
\* then holds new, has as many entries as before, every other entry is as it
\* was, get(new name) yields new and, unless new keeps old's name (ignoring
\* case), no entry is left under old's name and get(old name) yields none.
\* And a change that only alters the casing of the name of a stored entry
\* succeeds.
C15_ChangeReplaces ==
    last.op = "change" =>
        LET name == last.arg[1]
            t == last.arg[2]
            olds == Matching(last.before, name)
        IN /\ last.err = "ok" =>
                \E i \in olds :
                    LET old == last.before[i]
                        new == apply_closure(t, old)
                    IN /\ last.ret = <<new>>
                       /\ new \in Range(store.passwords)
                       /\ Len(store.passwords) = Len(last.before)
                       /\ Range(store.passwords) \ {new} = Range(last.before) \ {old}
                       /\ get_password(store.passwords, new.name) = <<new>>
                       /\ ~SameLower(new.name, old.name) =>
                            /\ Matching(store.passwords, old.name) = {}
                            /\ get_password(store.passwords, old.name) = <<>>
           /\ (olds # {} /\ t.name # <<>> /\ t.password = <<>>
                    /\ SameLower(t.name[1], name))
                => last.err = "ok"

\* C16: delete(name), when an entry matches name ignoring case, removes
\* that entry and no other, returns it, and get(name) then yields none; when
\* no entry matches it returns NoSuchApp and leaves the entries as they were.
C16_DeleteRemovesMatch ==
    last.op = "delete" =>
        IF Matching(last.before, last.arg[1]) # {}
        THEN /\ last.err = "ok"
             /\ \E i \in Matching(last.before, last.arg[1]) :
                    /\ last.ret = <<last.before[i]>>
                    /\ store.passwords = remove_at(last.before, i)
             /\ get_password(store.passwords, last.arg[1]) = <<>>
        ELSE /\ last.err = "NoSuchAppError"
             /\ store.passwords = last.before

\* C17: get(N') returns the stored entry whose name has the lowercase form
\* of N' (so has(N') is true), and none when no stored name has it.
C17_GetAnyCasing ==
    last.op = "get" =>
        IF Matching(last.before, last.arg[1]) # {}
        THEN \E i \in Matching(last.before, last.arg[1]) :
                last.ret = <<last.before[i]>>
        ELSE last.ret = <<>>

RECURSIVE lex_le(_, _)
\* a <= b in the lexicographic order of code points.
lex_le(a, b) ==
    \/ a = <<>>
    \/ /\ b # <<>>
       /\ \/ Head(a) < Head(b)
          \/ Head(a) = Head(b) /\ lex_le(Tail(a), Tail(b))

\* l is ordered by non-decreasing lowercased name.
SortedByLowerName(l) ==
    \A i \in 1 .. (Len(l) - 1) :
        lex_le(to_lowercase(l[i].name), to_lowercase(l[i + 1].name))

\* l holds every entry of passwords as many times as passwords does.
SameEntries(l, passwords) ==
    /\ Len(l) = Len(passwords)
    /\ \A e \in Range(passwords) \cup Range(l) :
        Cardinality({i \in 1 .. Len(l) : l[i] = e})
            = Cardinality({i \in 1 .. Len(passwords) : passwords[i] = e})

\* C18: in every reachable state list() returns every stored entry exactly
\* once, ordered by non-decreasing lowercased name, whatever the stored
\* order.
C18_ListSorted ==
    /\ SameEntries(get_all_passwords(store.passwords), store.passwords)
    /\ SortedByLowerName(get_all_passwords(store.passwords))
    /\ last.op = "list" =>
        /\ store.passwords = last.before
        /\ SameEntries(last.ret, last.before)
        /\ SortedByLowerName(last.ret)

\* C18's case: list() was called on a store of two entries whose stored
\* order is the reverse of the listed order.
C18_Witness ==
    /\ last.op = "list"
    /\ Len(last.before) = 2
    /\ last.ret # last.before
    /\ last.ret = <<last.before[2], last.before[1]>>

RECURSIVE subsequence(_, _)
\* The characters of q occur in s in order, not necessarily side by side.
subsequence(q, s) ==
    \/ q = <<>>
    \/ /\ s # <<>>
       /\ IF Head(q) = Head(s) THEN subsequence(Tail(q), Tail(s))
          ELSE subsequence(q, Tail(s))

\* C19: search(q) returns the stored entries whose lowercased name has the
\* lowercased characters of q as an in-order subsequence, all of them and no
\* other, each once, sorted by lowercased name; the result is within list()
\* and the empty query returns every entry.
C19_SearchExact ==
    last.op = "search" =>
        LET q == last.arg[1]
            hits == {i \in 1 .. Len(last.before) :
                        subsequence(to_lowercase(q), to_lowercase(last.before[i].name))}
        IN /\ last.err = "ok"
           /\ Range(last.ret) = {last.before[i] : i \in hits}
           /\ Len(last.ret) = Cardinality(hits)
           /\ SortedByLowerName(last.ret)
           /\ Range(last.ret) \subseteq Range(get_all_passwords(last.before))
           /\ q = <<>> => SameEntries(last.ret, last.before)

\* C20: add(e) that succeeds, then delete(e.name): the delete succeeds and
\* the entries are the set, in the number, that held before the add.
C20_AddThenDeleteRestores ==
    (last.op = "delete" /\ last.undo # <<>>)
        => /\ last.err = "ok"
           /\ Range(store.passwords) = Range(last.undo[1])
           /\ Len(store.passwords) = Len(last.undo[1])

\* C20's case: an entry added to a store that held one already, then
\* deleted by its name.
C20_Witness ==
    /\ last.op = "delete" /\ last.undo # <<>>
    /\ Len(last.undo[1]) = 1
    /\ Len(last.before) = 2
    /\ last.err = "ok"

\* ------------------------------------------------- claims on the container

C22_FreshIv ==
    /\ [](last.op = "sync" /\ last.err = "ok"
            => /\ file[15] = last.arg[1]
               /\ file[17].iv = last.arg[1]
               /\ file[16].msg[14] = last.arg[1]
               /\ file[16].msg[16] = file[17])
    /\ [][(/\ last.op = "sync" /\ last.err = "ok"
           /\ last'.op = "sync" /\ last'.err = "ok"
           /\ last'.arg # last.arg)
            => /\ store' = store
               /\ file'[15] # file[15]
               /\ file'[17] # file[17]]_vars

\* C22's case: a sync that drew "iv2" over a file whose IV field held "iv1",
\* the store having an entry.
C22_Witness ==
    /\ last.op = "sync" /\ last.err = "ok"
    /\ last.before = <<"iv1">>
    /\ last.arg = <<"iv2">>
    /\ Len(store.passwords) = 1
    /\ file[15] = "iv2"

\* The four bytes of x, most significant first.
BigEndian4(x) == [i \in 1 .. 4 |-> (x \div (256 ^ (4 - i))) % 256]

\* The MAC input as C23 states it: version (4 bytes), log2_n (1 byte), r (4
\* bytes), p (4 bytes), IV, salt, ciphertext.
StatedMacInput(version, log2_n, r, p, iv, salt, ciphertext) ==
    BigEndian4(version) \o <<log2_n>> \o BigEndian4(r) \o BigEndian4(p)
        \o <<iv, salt, ciphertext>>

\* The stated MAC input, of the fields as a whole file f holds them.
FileMacInput(f) ==
    StatedMacInput(read_u32_be(SubSeq(f, 1, 4)), f[5], read_u32_be(SubSeq(f, 6, 9)),
                   read_u32_be(SubSeq(f, 10, 13)), f[15], f[14], f[17])

\* The key from_input derives for master password m from the header of f.
FileKey(m, f) ==
    generate_encryption_key(m, f[14], f[5], read_u32_be(SubSeq(f, 6, 9)),
                            read_u32_be(SubSeq(f, 10, 13)))

\* C23: the signature sync writes is the MAC, under the store's key, of
\* version, log2_n, r, p, IV, salt and ciphertext in that order; a
\* from_input that gets to the verification succeeds exactly when the
\* signature in the file is the MAC, under the key it derived, of the same
\* seven fields as read; and a file with any one of those fields changed
\* has another MAC input than the one signed.
C23_MacInput ==
    /\ (last.op = "sync" /\ last.err = "ok")
        => /\ file[16].key = store.key
           /\ ~file[16].flipped
           /\ file[16].msg =
                StatedMacInput(VERSION, store.scrypt_log2_n, store.scrypt_r,
                               store.scrypt_p, last.arg[1], store.salt, file[17])
           /\ file[16].msg = FileMacInput(file)
    /\ (last.op = "open" /\ Len(last.steps) = 6)
        => (last.err = "ok"
              <=> /\ ~file[16].flipped
                  /\ file[16].key = FileKey(last.master, file)
                  /\ file[16].msg = FileMacInput(file))
    /\ (Len(file) = 17 /\ tamper \in (1 .. 15) \cup {17})
        => FileMacInput(file) # file[16].msg

\* C23's case: the salt of a written file was changed, the file decrypted
\* to a document all the same, and the verification refused it.
C23_Witness ==
    /\ last.op = "open"
    /\ last.steps[Len(last.steps)] = "verify"
    /\ last.err = "CorruptionError"
    /\ tamper = 14
    /\ file[16].msg # FileMacInput(file)

\* The positions of the file whose contents the MAC input holds, in file
\* order: the header bytes, the salt, the IV, and the blob after the
\* signature.
FileOrder == [i \in 1 .. 13 |-> i] \o <<14, 15, 17>>

\* The same positions in the order the MAC input has them: the IV before
\* the salt.
MacOrder == [i \in 1 .. 13 |-> i] \o <<15, 14, 17>>

\* C24 as stated: the MAC input of a file sync wrote holds the signed
\* fields of the file in file order.
C24_MacInputInFileOrder ==
    (last.op = "sync" /\ last.err = "ok")
        => /\ Len(file[16].msg) = Len(FileOrder)
           /\ \A i \in 1 .. Len(FileOrder) : file[16].msg[i] = file[FileOrder[i]]

\* C24, amended: the MAC input of a file sync wrote holds the signed fields
\* of the file in file order but for the IV and the salt, which it has the
\* other way round.
C24_MacInputOrder ==
    (last.op = "sync" /\ last.err = "ok")
        => /\ Len(file[16].msg) = Len(MacOrder)
           /\ \A i \in 1 .. Len(MacOrder) : file[16].msg[i] = file[MacOrder[i]]

\* C24's case: a file sync wrote, whose salt and IV differ, and whose MAC
\* input has the IV where file order would have the salt.
C24_Witness ==
    /\ last.op = "sync" /\ last.err = "ok"
    /\ Len(store.passwords) = 1
    /\ file[14] # file[15]
    /\ file[16].msg[14] = file[15]
    /\ file[16].msg[15] = file[14]

\* The order of sync's steps as C25 states it: the MAC is computed before
\* the file is touched.
StatedSyncOrder ==
    <<"serialize", "iv", "encrypt", "mac", "seek", "truncate", "write_version",
      "write_params", "write_salt", "write_iv", "write_mac", "write_blob", "flush">>

\* The steps of sync that compute and do not write.
ComputingSteps == {"serialize", "iv", "encrypt", "mac"}

\* C25: the steps a sync ran are the first ones of the stated order
\* (serialize, IV, encrypt, MAC, and only then seek, truncate, the header
\* fields, the MAC, the ciphertext, flush), and a sync that failed in a
\* computing step left the file as it was.
C25_MacBeforeTruncate ==
    [][last'.op = "sync"
        => /\ last'.steps = SubSeq(StatedSyncOrder, 1, Len(last'.steps))
           /\ (last'.err # "ok" /\ last'.steps[Len(last'.steps)] \in ComputingSteps)
                => file' = file]_vars

\* What opening f with master password m yields is the store the last
\* successful sync saw: it succeeds exactly when m derives that store's key,
\* and then returns its entries, salt, parameters and key.
OpensAsSynced(f, m, g) ==
    LET res == from_input(m, store, f, g) IN
    /\ res.err = "ok"
        <=> generate_encryption_key(m, synced.salt, synced.params[1],
                                    synced.params[2], synced.params[3]) = synced.key
    /\ res.err = "ok"
        => /\ res.store.passwords = synced.passwords
           /\ res.store.salt = synced.salt
           /\ <<res.store.scrypt_log2_n, res.store.scrypt_r, res.store.scrypt_p>>
                = synced.params
           /\ res.store.key = synced.key

\* C26: add, delete, change, change_master_password and
\* change_scrypt_params leave the file as it is, so that opening the file
\* yields the store as of the last sync whatever was done to the store in
\* memory since; and sync leaves the store in memory (entries, parameters,
\* salt, key, retained master password) as it is.
C26_OnlySyncWritesFile ==
    /\ []((synced.valid /\ tamper = 0)
            => \A m \in Masters, g \in GarbageOutcomes : OpensAsSynced(file, m, g))
    /\ [][/\ last'.op \in {"add", "delete", "change", "change_master_password",
                           "change_scrypt_params"} => file' = file
          /\ last'.op = "sync" => store' = store]_vars

\* C26's case: after a sync the entry was changed and the key is another,
\* neither synced, and the file still holds the entries of the sync.
C26_Witness ==
    /\ synced.valid
    /\ last.op = "change" /\ last.err = "ok"
    /\ store.passwords # synced.passwords
    /\ store.key # synced.key
    /\ file[17].pt = to_string(synced.passwords)
    /\ Len(synced.passwords) = 1

\* What C27 says of opening f, whose version field is whole: a version
\* above 2 is OutdatedRoosterBinaryError and one below 2 is
\* NeedUpgradeErrorFromV1, nothing but the version having been read.
VersionCheckedFirst(res, f) ==
    LET version == read_u32_be(SubSeq(f, 1, 4)) IN
    /\ version > VERSION
        => res.err = "OutdatedRoosterBinaryError" /\ res.steps = <<"read_version">>
    /\ version < VERSION
        => res.err = "NeedUpgradeErrorFromV1" /\ res.steps = <<"read_version">>

\* C27: from_input checks the version first: a file with a version above 2
\* fails with OutdatedRoosterBinaryError and one with a version below 2 with
\* NeedUpgradeErrorFromV1, before any other field is read, a key derived or
\* the master password checked, whatever else the file holds (changed
\* fields, a cut-off end) and whatever master password is given.  Checked of
\* the from_input that ran and of the file with each other last version
\* byte.
C27_VersionFirst ==
    /\ (last.op = "open" /\ Len(file) >= 4)
        => VersionCheckedFirst([err |-> last.err, steps |-> last.steps], file)
    /\ Len(file) >= 4
        => \A v \in ByteChoices, m \in Masters, g \in GarbageOutcomes :
            LET f == [file EXCEPT ![4] = v] IN
            VersionCheckedFirst(from_input(m, store, f, g), f)

\* C27's case: a file with version 3 that ends inside its header, opened
\* with a master password that is not the vault's.
C27_Witness ==
    /\ last.op = "open"
    /\ last.err = "OutdatedRoosterBinaryError"
    /\ last.master = "m2"
    /\ Len(file) >= 4 /\ Len(file) < 16
    /\ read_u32_be(SubSeq(file, 1, 4)) = 3

\* The number of elements of a whole header: version, log2_n, r, p (13
\* bytes), salt, IV, signature.
HeaderLen == 16

\* The outcome C28 states for an input that ends inside the header: the I/O
\* error kind of a short read, no key derived.
ShortReadOutcome(res) ==
    /\ res.err = "Io"
    /\ \A i \in 1 .. Len(res.steps) : res.steps[i] # "derive"

\* C28 as stated: every from_input of an input that ends before the end of
\* the header fails with the short-read kind and derives no key.
C28_ShortHeaderIsCorruption ==
    (last.op = "open" /\ Len(file) < HeaderLen)
        => ShortReadOutcome([err |-> last.err, steps |-> last.steps])

\* C28, amended: every from_input of an input that ends before the end of
\* the header, and whose version field is cut short or holds 2, fails with
\* the short-read kind, the same at every point the input ends at, and
\* derives no key.  Checked of the from_input that ran and of every master
\* password.
C28_ShortHeaderOfVersion2 ==
    (Len(file) < HeaderLen
        /\ (Len(file) >= 4 => read_u32_be(SubSeq(file, 1, 4)) = VERSION))
        => /\ last.op = "open"
                => ShortReadOutcome([err |-> last.err, steps |-> last.steps])
           /\ \A m \in Masters, g \in GarbageOutcomes :
                ShortReadOutcome(from_input(m, store, file, g))

\* C28's case: a written file cut inside its signature, a parameter byte
\* changed, opened with the vault's master password.
C28_Witness ==
    /\ last.op = "open" /\ last.err = "Io"
    /\ last.master = "m1"
    /\ Len(file) = 15
    /\ read_u32_be(SubSeq(file, 1, 4)) = VERSION
    /\ file[5] = 0

\* C29: no operation that derives a key or computes a MAC (new, from_input,
\* change_master_password, change_scrypt_params, sync) ends in a panic: a
\* failure the primitive reports comes back as an error of the store.
C29_PrimitiveFailureIsError ==
    last.op \in {"new", "open", "change_master_password", "change_scrypt_params",
                 "sync"}
        => last.err # "panic"

\* C30: every entry of the store has created_at <= updated_at.
C30_CreatedBeforeUpdated ==
    \A i \in 1 .. Len(store.passwords) :
        store.passwords[i].created_at <= store.passwords[i].updated_at

\* ------------------------------------------------ claims on the whole vault

\* C31: the store new(master_password) returns has no entries, the
\* parameters (log2_n, r, p) = (12, 8, 1), a salt drawn from the random
\* source, the master password given, and the key scrypt derives from that
\* master password, that salt and N = 2^12, r = 8, p = 1.
C31_NewStore ==
    last.op = "new"
        => /\ last.err = "ok"
           /\ store.passwords = <<>>
           /\ <<store.scrypt_log2_n, store.scrypt_r, store.scrypt_p>> = <<12, 8, 1>>
           /\ store.salt \in Salts
           /\ store.master_password = last.master
           /\ store.key = [pw |-> last.master, salt |-> store.salt, n |-> 4096,
                           r |-> 8, p |-> 1]

\* C31's case: new("m2") with the random source giving the salt "s2".
C31_Witness ==
    /\ last.op = "new"
    /\ last.master = "m2"
    /\ store.salt = "s2"
    /\ file = <<>>

\* text has str in it, as consecutive code points.
Contains(text, str) ==
    \E i \in 1 .. (Len(text) - Len(str) + 1) :
        SubSeq(text, i, i + Len(str) - 1) = str

\* C32: the debug text of a secret buffer and that of an entry holding one
\* are the same whatever the secret is, and do not have the secret in them.
C32_DebugHidesSecret ==
    last.op = "debug"
        => LET e == get_password(store.passwords, last.arg[1])[1] IN
           /\ \A sec \in DebugSecrets :
                /\ password_debug([e EXCEPT !.password = sec]) = last.ret[1]
                /\ safe_string_debug(sec) = last.ret[2]
           /\ ~Contains(last.ret[1], e.password)
           /\ ~Contains(last.ret[2], e.password)

\* C33: every buffer a dropped store releases that held the master
\* password, the key or an entry's secret has been overwritten with zeros.
C33_ReleasedBuffersZeroed ==
    last.op = "release"
        => \A i \in 1 .. Len(last.ret) : last.ret[i].buffer.zeroed

\* The attempts among the first three typed that open file f.
RightAttempts(typed, f) ==
    {i \in 1 .. 3 : from_input(typed[i], store, f, "pad_error").err = "ok"}

\* C34: a command that opens the vault asks for the master password at most
\* three times; when one of the first three passwords typed is right it
\* stops asking at the first such, holds the store read and exits with 0;
\* when all three are wrong it exits with 1 and the message that decryption
\* keeps failing; the file is the same afterwards either way.
C34_ThreeAttempts ==
    [][last'.op = "command"
        => LET right == RightAttempts(last'.arg, file)
               exit == last'.ret[1]
               asked == last'.ret[2]
           IN  /\ file' = file
               /\ asked <= 3
               /\ right # {}
                    => /\ exit = 0
                       /\ asked \in right
                       /\ \A i \in right : asked <= i
                       /\ store' = from_input(last'.arg[asked], store, file,
                                              "pad_error").store
               /\ right = {}
                    => /\ exit = 1
                       /\ asked = 3
                       /\ last'.err = "keeps failing"
                       /\ store' = store]_vars

\* C34's case: two wrong master passwords typed and then the right one.
C34_Witness ==
    /\ last.op = "command"
    /\ last.ret = <<0, 3>>
    /\ last.arg[1] = last.arg[2] /\ last.arg[2] # last.arg[3]
    /\ store.master_password = last.arg[3]

\* C34's other case: three wrong master passwords typed.
C34_WitnessWrong ==
    /\ last.op = "command"
    /\ last.ret = <<1, 3>>
    /\ last.err = "keeps failing"

\* C35: search_passwords returns for every query and every stored names, a
\* name or a query with characters of more than one byte included: it does
\* not abort.
C35_SearchReturns ==
    last.op = "search" => last.err = "ok"

\* C36: from_input of a version 2 file with a whole header returns a store
\* or an error whatever its log2_n byte is: the shift that computes the work
\* factor does not overflow, and the call does not panic.
C36_Log2NTotal ==
    (last.op = "open" /\ Len(file) >= 16
        /\ read_u32_be(SubSeq(file, 1, 4)) = VERSION)
        => /\ ~shl_overflows(file[5])
           /\ last.err # "panic"

\* The store from_input returns is st as sync would write it: its entries,
\* salt, parameters and key.
SameVault(opened, st) ==
    /\ opened.passwords = st.passwords
    /\ opened.salt = st.salt
    /\ <<opened.scrypt_log2_n, opened.scrypt_r, opened.scrypt_p>>
        = <<st.scrypt_log2_n, st.scrypt_r, st.scrypt_p>>
    /\ opened.key = st.key

\* C37 as stated: after a sync that failed, opening the file with the
\* store's master password fails or yields the store that opening the file
\* as it was before that sync yielded.
C37_FailedSyncKeepsPersisted ==
    [][(last'.op = "sync" /\ last'.err # "ok")
        => \A g \in GarbageOutcomes :
            LET before == from_input(store.master_password, store, file, g)
                after == from_input(store.master_password, store, file', g)
            IN  after.err = "ok"
                    => before.err = "ok" /\ after.store = before.store]_vars

\* C37, amended: after a sync that failed, opening the file with the store's
\* master password fails, or yields the store that opening the file as it
\* was before that sync yielded, or, when the step that failed is the
\* flush, the whole store this sync wrote; it yields no other store.
C37_FailedSyncNeverPartial ==
    [][(last'.op = "sync" /\ last'.err # "ok")
        => \A g \in GarbageOutcomes :
            LET before == from_input(store.master_password, store, file, g)
                after == from_input(store.master_password, store, file', g)
            IN  after.err = "ok"
                    => \/ before.err = "ok" /\ after.store = before.store
                       \/ /\ last'.steps[Len(last'.steps)] = "flush"
                          /\ SameVault(after.store, store)]_vars

\* C37's case: a sync of a store with an entry failed at the flush, over a
\* file that held the store without it: the file opens to the store with
\* the entry.
C37_Witness ==
    /\ last.op = "sync" /\ last.err = "Io"
    /\ last.steps[Len(last.steps)] = "flush"
    /\ synced.valid /\ synced.passwords = <<>>
    /\ Len(store.passwords) = 1
    /\ from_input(store.master_password, store, file, "pad_error").err = "ok"
    /\ from_input(store.master_password, store, file, "pad_error").store.passwords
        = store.passwords

\* C37's other case: a sync failed while it wrote the header, and the file
\* does not open.
C37_WitnessCut ==
    /\ last.op = "sync" /\ last.err = "Io"
    /\ last.steps[Len(last.steps)] = "write_salt"
    /\ synced.valid
    /\ from_input(store.master_password, store, file, "pad_error").err = "Io"

\* What set-scrypt-params was given lets change_scrypt_params be called.
ParamsAllowed(arg) ==
    /\ arg[1] > 0 /\ arg[2] > 0 /\ arg[3] > 0
    /\ arg[4] \/ (arg[1] <= 20 /\ arg[2] <= 8 /\ arg[3] <= 1)

\* C38: set-scrypt-params calls change_scrypt_params only when log2_n, r and
\* p are all above 0 and --force is given or log2_n <= 20, r <= 8 and
\* p <= 1; otherwise it returns 1 and the parameters and key of the store
\* are as they were.
C38_ParamsGuard ==
    last.op = "set_scrypt_params"
        => /\ last.ret[2] => ParamsAllowed(last.arg)
           /\ ~ParamsAllowed(last.arg)
                => /\ last.ret = <<1, FALSE>>
                   /\ last.before = <<store.scrypt_log2_n, store.scrypt_r,
                                      store.scrypt_p, store.key>>

\* C38's case: log2_n = 21 without --force, after parameters were changed:
\* exit status 1 and the changed parameters stay.
C38_Witness ==
    /\ last.op = "set_scrypt_params"
    /\ last.arg = <<21, 8, 1, FALSE>>
    /\ last.ret = <<1, FALSE>>
    /\ store.scrypt_log2_n = 20

\* C38's other case: log2_n = 21 with --force is set.
C38_WitnessForced ==
    /\ last.op = "set_scrypt_params"
    /\ last.arg = <<21, 9, 2, TRUE>>
    /\ last.ret = <<0, TRUE>>
    /\ store.scrypt_log2_n = 21 /\ store.key.n = 2097152

\* The entry an editing command is to leave: old with value in the
\* command's field and t in updated_at.
Edited(cmd, old, value, t) ==
    [old EXCEPT ![edited_field(cmd)] = value, !.updated_at = t]

\* C39: rename, transfer, change and regenerate replace one field of the
\* selected entry (name, username, secret, secret) and updated_at and keep
\* its other fields, created_at among them; the other entries are
\* unchanged; when the change fails the command returns 1 and the entry is
\* unchanged.
C39_EditOneField ==
    last.op \in EditCommands
        => LET i == last.arg[1]
               old == last.before[i]
               others == remove_at(last.before, i)
           IN  IF last.err = "ok"
               THEN /\ last.ret = <<0>>
                    /\ \E j \in 1 .. Len(store.passwords) :
                        /\ store.passwords[j]
                            = Edited(last.op, old, last.arg[2], last.arg[3])
                        /\ remove_at(store.passwords, j) = others
               ELSE /\ last.ret = <<1>>
                    /\ \E j \in 1 .. Len(store.passwords) :
                        /\ store.passwords[j] = old
                        /\ remove_at(store.passwords, j) = others

RECURSIVE StatedImport(_, _, _)
\* The import the statement describes, over the valid records from the k-th
\* on: a record whose name is in the list ignoring case is a warning, one
\* with an empty secret (which add rejects) an error, any other is added.
StatedImport(valid, k, acc) ==
    IF k > Len(valid) THEN acc
    ELSE IF Matching(acc.passwords, valid[k].name) # {}
    THEN StatedImport(valid, k + 1, [acc EXCEPT !.warnings = acc.warnings + 1])
    ELSE IF valid[k].password = <<>>
    THEN StatedImport(valid, k + 1, [acc EXCEPT !.errors = acc.errors + 1])
    ELSE StatedImport(valid, k + 1,
             [acc EXCEPT !.successes = acc.successes + 1,
                         !.passwords = Append(acc.passwords, valid[k])])

\* C40: an import removes and overwrites no entry; a record whose name is
\* in the store ignoring case, or repeats one imported before it, is
\* skipped and counted as a warning, one that add rejects as an error;
\* successes + warnings + errors is the number of records, and exactly
\* `successes` entries are added.
C40_ImportSkipsPresent ==
    last.op = "import"
        => LET valid == last.arg[1]
               invalid == last.arg[2]
               stated == StatedImport(valid, 1,
                             [errors |-> Len(invalid), warnings |-> 0,
                              successes |-> 0, passwords |-> last.before])
           IN  /\ SubSeq(store.passwords, 1, Len(last.before)) = last.before
               /\ last.ret[1] + last.ret[2] + last.ret[3]
                    = Len(valid) + Len(invalid)
               /\ Len(store.passwords) = Len(last.before) + last.ret[1]
               /\ store.passwords = stated.passwords
               /\ last.ret
                    = <<stated.successes, stated.warnings, stated.errors>>

\* C40 without the skipping: an import removes and overwrites no entry, the
\* three counters add up to the number of records and `successes` entries
\* are added.
C40_ImportCounts ==
    last.op = "import"
        => /\ Len(store.passwords) >= Len(last.before)
           /\ SubSeq(store.passwords, 1, Len(last.before)) = last.before
           /\ last.ret[1] + last.ret[2] + last.ret[3]
                = Len(last.arg[1]) + Len(last.arg[2])
           /\ Len(store.passwords) = Len(last.before) + last.ret[1]

====
